---- MODULE Spec2Model ----
(***************************************************************************)
(* The layout containers of arcade.gui.widgets.layout: UIAnchorLayout,     *)
(* UIBoxLayout and UIGridLayout, with the size-hint protocol they apply to *)
(* their children.                                                         *)
(*                                                                         *)
(* Numbers are exact rationals <<numerator, denominator>> in lowest terms  *)
(* with a positive denominator (Python computes in floats; the rounding of *)
(* floats is not modelled).  Python's None is the empty tuple.             *)
(***************************************************************************)
EXTENDS Integers, Sequences, FiniteSets, TLC

\* ------------------------------------------------------------------------
\* Exact arithmetic
\* ------------------------------------------------------------------------

None == << >>

Abs(n) == IF n < 0 THEN -n ELSE n

RECURSIVE GCD(_, _)
GCD(a, b) == IF b = 0 THEN a ELSE GCD(b, a % b)

Norm(n, d) ==
    LET s == IF d < 0 THEN -1 ELSE 1
        g == GCD(Abs(n), Abs(d))
    IN  IF d = 1 THEN <<n, 1>>
        ELSE IF n = 0 THEN <<0, 1>> ELSE <<(s * n) \div g, (s * d) \div g>>

Q(n) == <<n, 1>>
Zero == <<0, 1>>
One == <<1, 1>>
Half == <<1, 2>>

Add(a, b) == Norm(a[1] * b[2] + b[1] * a[2], a[2] * b[2])
Sub(a, b) == Norm(a[1] * b[2] - b[1] * a[2], a[2] * b[2])
Mul(a, b) == Norm(a[1] * b[1], a[2] * b[2])
\* what a division by zero leaves in place of a number
ZeroDivisionError == <<1, 0>>

Div(a, b) == IF b[1] = 0 THEN ZeroDivisionError ELSE Norm(a[1] * b[2], a[2] * b[1])
Lt(a, b) == a[1] * b[2] < b[1] * a[2]
Leq(a, b) == a[1] * b[2] <= b[1] * a[2]
Max2(a, b) == IF Lt(a, b) THEN b ELSE a
Min2(a, b) == IF Lt(b, a) THEN b ELSE a
\* Python's a // 2
FloorHalf(a) == Q(a[1] \div (2 * a[2]))

\* Python's truth value of an optional number, and `v or alt`
Truthy(v) == v # None /\ v # Zero
Or(v, alt) == IF Truthy(v) THEN v ELSE alt

\* ------------------------------------------------------------------------
\* Rect (arcade.gui.widgets.Rect)
\* ------------------------------------------------------------------------

Rect(x, y, w, h) == [x |-> x, y |-> y, width |-> w, height |-> h]

left(r) == r.x
right(r) == Add(r.x, r.width)
bottom(r) == r.y
top(r) == Add(r.y, r.height)
center_x(r) == Add(r.x, Mul(r.width, Half))
center_y(r) == Add(r.y, Mul(r.height, Half))

move(r, dx, dy) == [r EXCEPT !.x = Add(r.x, dx), !.y = Add(r.y, dy)]

resize(r, w, h) ==
    [r EXCEPT !.width = IF w = None THEN r.width ELSE w,
              !.height = IF h = None THEN r.height ELSE h]

min_size(r, w, h) ==
    [r EXCEPT !.width = IF w = None THEN r.width ELSE Max2(w, r.width),
              !.height = IF h = None THEN r.height ELSE Max2(h, r.height)]

max_size(r, w, h) ==
    [r EXCEPT !.width = IF w = None THEN r.width ELSE Min2(w, r.width),
              !.height = IF h = None THEN r.height ELSE Min2(h, r.height)]

align_left(r, v) == move(r, Sub(v, left(r)), Zero)
align_right(r, v) == move(r, Sub(v, right(r)), Zero)
align_top(r, v) == move(r, Zero, Sub(v, top(r)))
align_bottom(r, v) == move(r, Zero, Sub(v, bottom(r)))
align_center_x(r, v) == move(r, Sub(v, center_x(r)), Zero)
align_center_y(r, v) == move(r, Zero, Sub(v, center_y(r)))

\* ------------------------------------------------------------------------
\* Widgets: a rect and the size-hint triple.  A hint is None or a pair whose
\* components are None or numbers.
\* ------------------------------------------------------------------------

Widget(w, h, sh, shmn, shmx) ==
    [rect |-> Rect(Zero, Zero, Q(w), Q(h)),
     size_hint |-> sh, size_hint_min |-> shmn, size_hint_max |-> shmx]

\* `hint or (None, None)`
Pair(hint) == IF hint = None THEN <<None, None>> ELSE hint

\* ------------------------------------------------------------------------
\* State
\* ------------------------------------------------------------------------

VARIABLES
    kind,       \* which container class `self` is: "anchor", "box" or "grid"
    self,       \* the container: rect, padding, border, configuration, size_hint_min
    children,   \* self._children: the (child, data) entries in insertion order
    err,        \* "none", or the exception that ended the last operation
    lastOp,     \* the operation that produced this state
    layouts     \* how many times the present children have been laid out

vars == <<kind, self, children, err, lastOp, layouts>>

\* UIWidget.content_width / content_height / content_rect
content_width(s) ==
    Sub(Sub(Sub(s.width, Mul(Q(2), s.border_width)), s.padding_left), s.padding_right)
content_height(s) ==
    Sub(Sub(Sub(s.height, Mul(Q(2), s.border_width)), s.padding_top), s.padding_bottom)
content_rect(s) ==
    Rect(Add(Add(s.x, s.border_width), s.padding_left),
         Add(Add(s.y, s.border_width), s.padding_bottom),
         content_width(s), content_height(s))

\* ------------------------------------------------------------------------
\* UIAnchorLayout
\* ------------------------------------------------------------------------

\* anchor_x=None / anchor_y=None of add()
NoAnchor == "None"

default_anchor_x == "center"
default_anchor_y == "center"

\* getattr(rect, anchor) after "center" was renamed to center_x / center_y
AnchorXValue(r, a) ==
    IF a = "left" THEN left(r) ELSE IF a = "right" THEN right(r) ELSE center_x(r)
AnchorYValue(r, a) ==
    IF a = "top" THEN top(r) ELSE IF a = "bottom" THEN bottom(r) ELSE center_y(r)

\* lines 118-132: the size hints of one axis applied to a length
AnchorHinted(len, content, sh, shmn, shmx) ==
    IF sh = None THEN len
    ELSE LET a == Mul(content, sh)
             b == IF Truthy(shmn) THEN Max2(shmn, a) ELSE a
         IN  IF Truthy(shmx) THEN Min2(shmx, b) ELSE b

\* lines 111-132 without the cap of line 135
AnchorSized_Uncapped(s, c) ==
    LET sh == Pair(c.size_hint)
        mn == Pair(c.size_hint_min)
        mx == Pair(c.size_hint_max)
        w == AnchorHinted(c.rect.width, content_width(s), sh[1], mn[1], mx[1])
        h == AnchorHinted(c.rect.height, content_height(s), sh[2], mn[2], mx[2])
    IN  resize(c.rect, w, h)

\* lines 111-135: the child's rect after the hints and the cap at the content size
AnchorSized(s, c) ==
    LET sh == Pair(c.size_hint)
        mn == Pair(c.size_hint_min)
        mx == Pair(c.size_hint_max)
        w == AnchorHinted(c.rect.width, content_width(s), sh[1], mn[1], mx[1])
        h == AnchorHinted(c.rect.height, content_height(s), sh[2], mn[2], mx[2])
    IN  max_size(resize(c.rect, w, h), content_width(s), content_height(s))

\* _place_child with the align_x offset left out of diff_x
PlaceChild_AlignIgnored(s, c) ==
    LET anchor_x == IF c.data.anchor_x = NoAnchor THEN default_anchor_x ELSE c.data.anchor_x
        anchor_y == IF c.data.anchor_y = NoAnchor THEN default_anchor_y ELSE c.data.anchor_y
        new_child_rect == AnchorSized(s, c)
        cr == content_rect(s)
        diff_x == Sub(AnchorXValue(cr, anchor_x), AnchorXValue(new_child_rect, anchor_x))
        diff_y == Sub(Add(AnchorYValue(cr, anchor_y), c.data.align_y),
                      AnchorYValue(new_child_rect, anchor_y))
    IN  IF diff_x # Zero \/ diff_y # Zero \/ c.rect # new_child_rect
        THEN [c EXCEPT !.rect = move(new_child_rect, diff_x, diff_y)]
        ELSE c

\* UIAnchorLayout._place_child: the child entry after the call
PlaceChild(s, c) ==
    LET anchor_x == IF c.data.anchor_x = NoAnchor THEN default_anchor_x ELSE c.data.anchor_x
        anchor_y == IF c.data.anchor_y = NoAnchor THEN default_anchor_y ELSE c.data.anchor_y
        new_child_rect == AnchorSized(s, c)
        cr == content_rect(s)
        diff_x == Sub(Add(AnchorXValue(cr, anchor_x), c.data.align_x),
                      AnchorXValue(new_child_rect, anchor_x))
        diff_y == Sub(Add(AnchorYValue(cr, anchor_y), c.data.align_y),
                      AnchorYValue(new_child_rect, anchor_y))
    IN  IF diff_x # Zero \/ diff_y # Zero \/ c.rect # new_child_rect
        THEN [c EXCEPT !.rect = move(new_child_rect, diff_x, diff_y)]
        ELSE c

\* lines 150-152: whether _place_child assigns child.rect
PlaceChildAssigns(s, c) ==
    LET anchor_x == IF c.data.anchor_x = NoAnchor THEN default_anchor_x ELSE c.data.anchor_x
        anchor_y == IF c.data.anchor_y = NoAnchor THEN default_anchor_y ELSE c.data.anchor_y
        new_child_rect == AnchorSized(s, c)
        cr == content_rect(s)
        diff_x == Sub(Add(AnchorXValue(cr, anchor_x), c.data.align_x),
                      AnchorXValue(new_child_rect, anchor_x))
        diff_y == Sub(Add(AnchorYValue(cr, anchor_y), c.data.align_y),
                      AnchorYValue(new_child_rect, anchor_y))
    IN  diff_x # Zero \/ diff_y # Zero \/ c.rect # new_child_rect

\* the children whose rect a UIAnchorLayout.do_layout() assigns
AnchorAssigned(s, cs) == {i \in 1..Len(cs) : PlaceChildAssigns(s, cs[i])}

\* UIAnchorLayout.do_layout
AnchorDoLayout(s, cs) == [i \in 1..Len(cs) |-> PlaceChild(s, cs[i])]

\* ------------------------------------------------------------------------
\* UIBoxLayout
\* ------------------------------------------------------------------------

\* _layouting_allowed: <<horizontal, vertical>>
LayoutingAllowed(c) ==
    LET sh == Pair(c.size_hint) IN <<sh[1] # None, sh[2] # None>>

\* the nested min_size(child) of _update_size_hints
MinSize(c) ==
    LET allowed == LayoutingAllowed(c)
        mn == Pair(c.size_hint_min)
    IN  <<IF allowed[1] THEN Or(mn[1], Zero) ELSE c.rect.width,
          IF allowed[2] THEN Or(mn[2], Zero) ELSE c.rect.height>>

RECURSIVE SumOf(_, _, _)
SumOf(f, lo, hi) == IF lo > hi THEN Zero ELSE Add(f[lo], SumOf(f, lo + 1, hi))

RECURSIVE MaxOf(_, _, _)
MaxOf(f, lo, hi) == IF lo >= hi THEN f[lo] ELSE Max2(f[lo], MaxOf(f, lo + 1, hi))

base_width(s) == Add(Add(s.padding_left, s.padding_right), Mul(Q(2), s.border_width))
base_height(s) == Add(Add(s.padding_top, s.padding_bottom), Mul(Q(2), s.border_width))

\* _update_size_hints with a space counted after every child
BoxUpdateSizeHints_SpaceAfterEach(s, cs) ==
    LET n == Len(cs)
        required_space_between == Mul(Q(n), s.space_between)
        ws == [i \in 1..n |-> MinSize(cs[i])[1]]
        hs == [i \in 1..n |-> MinSize(cs[i])[2]]
        width == IF n = 0 THEN Zero
                 ELSE IF s.vertical THEN MaxOf(ws, 1, n)
                 ELSE Add(SumOf(ws, 1, n), required_space_between)
        height == IF n = 0 THEN Zero
                  ELSE IF s.vertical THEN Add(SumOf(hs, 1, n), required_space_between)
                  ELSE MaxOf(hs, 1, n)
    IN  <<Add(base_width(s), width), Add(base_height(s), height)>>

\* UIBoxLayout._update_size_hints: the new self.size_hint_min
BoxUpdateSizeHints(s, cs) ==
    LET n == Len(cs)
        required_space_between == Mul(Q(IF n - 1 > 0 THEN n - 1 ELSE 0), s.space_between)
        ws == [i \in 1..n |-> MinSize(cs[i])[1]]
        hs == [i \in 1..n |-> MinSize(cs[i])[2]]
        width == IF n = 0 THEN Zero
                 ELSE IF s.vertical THEN MaxOf(ws, 1, n)
                 ELSE Add(SumOf(ws, 1, n), required_space_between)
        height == IF n = 0 THEN Zero
                  ELSE IF s.vertical THEN Add(SumOf(hs, 1, n), required_space_between)
                  ELSE MaxOf(hs, 1, n)
    IN  <<Add(base_width(s), width), Add(base_height(s), height)>>

\* the weights taken as they are, never divided by their sum
TotalSizeHint_Unsummed(cs, axis) == One

\* sum(child.size_hint[axis] or 0 for child in children if child.size_hint) or 1
TotalSizeHint(cs, axis) ==
    LET f == [i \in 1..Len(cs) |->
                IF cs[i].size_hint = None THEN Zero ELSE Or(cs[i].size_hint[axis], Zero)]
    IN  Or(SumOf(f, 1, Len(cs)), One)

\* the stacking axis with the whole surplus offered to every child
BoxStacked_WholeSurplus(len, own, available, total, sh, shmn, shmx) ==
    IF sh = None THEN len
    ELSE LET min_value == Or(shmn, Zero)
             available_growth == Add(min_value, available)
             max_growth == Mul(own, sh)
             a == Min2(available_growth, max_growth)
             b == IF shmn # None THEN Max2(shmn, a) ELSE a
         IN  IF shmx # None THEN Min2(shmx, b) ELSE b

\* the stacking axis of one child (lines 299-314, 372-391): its new length
BoxStacked(len, own, available, total, sh, shmn, shmx) ==
    IF sh = None THEN len
    ELSE LET min_value == Or(shmn, Zero)
             available_growth == Add(min_value, Mul(available, Div(sh, total)))
             max_growth == Mul(own, sh)
             a == Min2(available_growth, max_growth)
             b == IF shmn # None THEN Max2(shmn, a) ELSE a
         IN  IF shmx # None THEN Min2(shmx, b) ELSE b

\* the cross axis of one child (lines 317-325, 394-403): its new length
BoxCross(len, available, sh, shmn, shmx) ==
    IF sh = None THEN len
    ELSE LET a == Max2(Mul(available, sh), Or(shmn, Zero))
             b == IF shmn # None THEN Max2(shmn, a) ELSE a
         IN  IF shmx # None THEN Min2(shmx, b) ELSE b

\* the vertical pass with the cursor moved by the child's height only
BoxPlaceVertical_SpaceDropped(s, cs, c, start_x, start_y) ==
    LET sh == Pair(c.size_hint)
        mn == Pair(c.size_hint_min)
        mx == Pair(c.size_hint_max)
        available_height == Max2(Zero, Sub(s.height, s.size_hint_min[2]))
        h == BoxStacked(c.rect.height, s.height, available_height,
                        TotalSizeHint(cs, 2), sh[2], mn[2], mx[2])
        w == BoxCross(c.rect.width, content_width(s), sh[1], mn[1], mx[1])
        r1 == resize(c.rect, w, h)
        r2 == IF s.align = "left" THEN align_left(r1, start_x)
              ELSE IF s.align = "right"
                   THEN align_right(r1, Add(start_x, content_width(s)))
                   ELSE align_center_x(r1, Add(start_x, FloorHalf(content_width(s))))
        r3 == align_top(r2, start_y)
    IN  <<[c EXCEPT !.rect = r3], Sub(start_y, r3.height)>>

\* one pass of the vertical loop (lines 290-340): <<child after, start_y after>>
BoxPlaceVertical(s, cs, c, start_x, start_y) ==
    LET sh == Pair(c.size_hint)
        mn == Pair(c.size_hint_min)
        mx == Pair(c.size_hint_max)
        available_height == Max2(Zero, Sub(s.height, s.size_hint_min[2]))
        h == BoxStacked(c.rect.height, s.height, available_height,
                        TotalSizeHint(cs, 2), sh[2], mn[2], mx[2])
        w == BoxCross(c.rect.width, content_width(s), sh[1], mn[1], mx[1])
        r1 == resize(c.rect, w, h)
        r2 == IF s.align = "left" THEN align_left(r1, start_x)
              ELSE IF s.align = "right"
                   THEN align_right(r1, Add(start_x, content_width(s)))
                   ELSE align_center_x(r1, Add(start_x, FloorHalf(content_width(s))))
        r3 == align_top(r2, start_y)
    IN  <<[c EXCEPT !.rect = r3], Sub(Sub(start_y, r3.height), s.space_between)>>

\* one pass of the horizontal loop (lines 363-417): <<child after, start_x after>>
BoxPlaceHorizontal(s, cs, c, start_x, start_y) ==
    LET sh == Pair(c.size_hint)
        mn == Pair(c.size_hint_min)
        mx == Pair(c.size_hint_max)
        center_y_ == Sub(start_y, FloorHalf(content_height(s)))
        available_width == Max2(Zero, Sub(s.width, s.size_hint_min[1]))
        w == BoxStacked(c.rect.width, s.width, available_width,
                        TotalSizeHint(cs, 1), sh[1], mn[1], mx[1])
        h == BoxCross(c.rect.height, content_height(s), sh[2], mn[2], mx[2])
        r1 == resize(c.rect, w, h)
        r2 == IF s.align = "top" THEN align_top(r1, start_y)
              ELSE IF s.align = "bottom"
                   THEN align_bottom(r1, Sub(start_y, content_height(s)))
                   ELSE align_center_y(r1, center_y_)
        r3 == align_left(r2, start_x)
    IN  <<[c EXCEPT !.rect = r3], Add(Add(start_x, r3.width), s.space_between)>>

\* the loop over self.children from child i on, with the cursor at `cursor`
RECURSIVE BoxLoop(_, _, _, _)
BoxLoop(s, cs, i, cursor) ==
    IF i > Len(cs) THEN cs
    ELSE LET p == IF s.vertical
                  THEN BoxPlaceVertical(s, cs, cs[i], left(content_rect(s)), cursor)
                  ELSE BoxPlaceHorizontal(s, cs, cs[i], cursor, top(content_rect(s)))
         IN  BoxLoop(s, [cs EXCEPT ![i] = p[1]], i + 1, p[2])

\* UIBoxLayout.do_layout
BoxDoLayout(s, cs) ==
    IF Len(cs) = 0 THEN cs
    ELSE BoxLoop(s, cs, 1,
                 IF s.vertical THEN top(content_rect(s)) ELSE left(content_rect(s)))

\* the children whose rect a UIBoxLayout.do_layout() assigns: child.rect = new_rect
\* stands in the loop body without a test (lines 337 and 414)
BoxAssigned(s, cs) == {i \in 1..Len(cs) : TRUE}

\* ------------------------------------------------------------------------
\* UIGridLayout
\* ------------------------------------------------------------------------

\* Python's list[i] on a list of length n: the 1-based position, 0 for IndexError
PyIndex(i, n) == IF 0 <= i /\ i < n THEN i + 1 ELSE IF -n <= i /\ i < 0 THEN i + n + 1 ELSE 0

\* Python's list[a:b] on a list of length n: <<start, stop>>, 0-based, start <= stop
PySlice(a, b, n) ==
    LET clip(v) == LET w == IF v < 0 THEN v + n ELSE v
                   IN  IF w < 0 THEN 0 ELSE IF w > n THEN n ELSE w
        start == clip(a)
        stop == clip(b)
    IN  <<start, IF stop < start THEN start ELSE stop>>

\* row[a:b] = [k] * count
PySliceAssign(row, a, b, k, count) ==
    LET sl == PySlice(a, b, Len(row))
    IN  SubSeq(row, 1, sl[1]) \o [j \in 1..count |-> k] \o SubSeq(row, sl[2] + 1, Len(row))

\* the three tables before any child is entered (lines 509-518, 615-624)
EmptyTables(s) ==
    [err |-> "none",
     child_sorted_row_wise |-> [r \in 1..s.row_count |-> [c \in 1..s.column_count |-> 0]],
     max_width_per_column |->
        [c \in 1..s.column_count |-> [r \in 1..s.row_count |-> <<Zero, 1>>]],
     max_height_per_row |->
        [r \in 1..s.row_count |-> [c \in 1..s.column_count |-> <<Zero, 1>>]]]

\* one pass of the loop over self._children (lines 532-553, 626-645) for child k,
\* entered with width w and height h
EnterChild(s, t, k, d, w, h) ==
    LET C == s.column_count
        R == s.row_count
        cols == d.col_num .. (d.col_num + d.col_span - 1)
        rows == d.row_num .. (d.row_num + d.row_span - 1)
        ci == PyIndex(d.col_num, C)
        ri == PyIndex(d.row_num, R)
        bad == \/ ci = 0
               \/ ri = 0
               \/ \E i \in cols : PyIndex(i, C) = 0
               \/ \E i \in rows : PyIndex(i, R) = 0
        rsl == PySlice(d.row_num, d.row_num + d.row_span, R)
    IN  IF t.err # "none" THEN t
        ELSE IF bad THEN [t EXCEPT !.err = "IndexError"]
        ELSE [t EXCEPT
                !.max_width_per_column =
                    [c \in 1..C |-> [r \in 1..R |->
                        IF c = ci /\ r = ri THEN <<w, d.col_span>>
                        ELSE IF r = ri /\ \E i \in cols : PyIndex(i, C) = c
                             THEN <<Zero, 0>>
                             ELSE t.max_width_per_column[c][r]]],
                !.max_height_per_row =
                    [r \in 1..R |-> [c \in 1..C |->
                        IF c = ci /\ r = ri THEN <<h, d.row_span>>
                        ELSE IF c = ci /\ \E i \in rows : PyIndex(i, R) = r
                             THEN <<Zero, 0>>
                             ELSE t.max_height_per_row[r][c]]],
                !.child_sorted_row_wise =
                    [r \in 1..R |->
                        IF rsl[1] < r /\ r <= rsl[2]
                        THEN PySliceAssign(t.child_sorted_row_wise[r], d.col_num,
                                           d.col_num + d.col_span, k, d.col_span)
                        ELSE t.child_sorted_row_wise[r]]]

\* the tables after children k.. are entered; with useMin the children's
\* min_size(child) is entered (_update_size_hints), else their current size (do_layout)
RECURSIVE Tables(_, _, _, _, _)
Tables(s, cs, t, k, useMin) ==
    IF k > Len(cs) THEN t
    ELSE LET w == IF useMin THEN MinSize(cs[k])[1] ELSE cs[k].rect.width
             h == IF useMin THEN MinSize(cs[k])[2] ELSE cs[k].rect.height
         IN  Tables(s, cs, EnterChild(s, t, k, cs[k].data, w, h), k + 1, useMin)

\* value / (span or 1)
PerSpan(e) == Div(e[1], Q(IF e[2] = 0 THEN 1 ELSE e[2]))

\* principal_width_ratio_list / principal_height_ratio_list of _update_size_hints
PrincipalList(tab) ==
    [i \in 1..Len(tab) |->
        MaxOf([j \in 1..Len(tab[i]) |-> PerSpan(tab[i][j])], 1, Len(tab[i]))]

\* _update_size_hints with the spacing counted between the rows and columns only
GridUpdateSizeHints_SpacingBetween(s, cs) ==
    LET t == Tables(s, cs, EmptyTables(s), 1, TRUE)
        ph == PrincipalList(t.max_height_per_row)
        pw == PrincipalList(t.max_width_per_column)
        content_height_ == Add(SumOf(ph, 1, Len(ph)),
                               Mul(Q(s.row_count - 1), s.vertical_spacing))
        content_width_ == Add(SumOf(pw, 1, Len(pw)),
                              Mul(Q(s.column_count - 1), s.horizontal_spacing))
    IN  IF t.err # "none" THEN [err |-> t.err, size_hint_min |-> s.size_hint_min]
        ELSE [err |-> "none",
              size_hint_min |-> <<Add(base_width(s), content_width_),
                                  Add(base_height(s), content_height_)>>]

\* UIGridLayout._update_size_hints: [err, size_hint_min]
GridUpdateSizeHints(s, cs) ==
    LET t == Tables(s, cs, EmptyTables(s), 1, TRUE)
        ph == PrincipalList(t.max_height_per_row)
        pw == PrincipalList(t.max_width_per_column)
        content_height_ == Add(SumOf(ph, 1, Len(ph)), Mul(Q(s.row_count), s.vertical_spacing))
        content_width_ == Add(SumOf(pw, 1, Len(pw)), Mul(Q(s.column_count), s.horizontal_spacing))
    IN  IF t.err # "none" THEN [err |-> t.err, size_hint_min |-> s.size_hint_min]
        ELSE [err |-> "none",
              size_hint_min |-> <<Add(base_width(s), content_width_),
                                  Add(base_height(s), content_height_)>>]

\* "Making cell height same for each row" / "cell width same for each column"
\* (lines 651-664): one row or column of a table, equalized with spacing sp
EqualizeLine(line, sp) ==
    LET per(e) == Div(Add(e[1], sp), Q(IF e[2] = 0 THEN 1 ELSE e[2]))
        principal == MaxOf([j \in 1..Len(line) |-> per(line[j])], 1, Len(line))
    IN  [principal |-> principal,
         line |-> [j \in 1..Len(line) |->
                     IF Lt(per(line[j]), principal)
                     THEN <<Mul(principal, Q(line[j][2])), line[j][2]>>
                     ELSE line[j]]]

\* ratio(dimensions) dividing by the sum as it is, without the "or 1"
ratio_Unguarded(dimensions) ==
    LET ratio_value == SumOf(dimensions, 1, Len(dimensions))
    IN  [i \in 1..Len(dimensions) |-> Div(dimensions[i], ratio_value)]

\* the nested ratio(dimensions) of do_layout
ratio(dimensions) ==
    LET ratio_value == Or(SumOf(dimensions, 1, Len(dimensions)), One)
    IN  [i \in 1..Len(dimensions) |-> Div(dimensions[i], ratio_value)]

\* what do_layout computes before it walks the cells (lines 615-681)
GridPlan(s, cs) ==
    LET t == Tables(s, cs, EmptyTables(s), 1, FALSE)
        eh == [r \in 1..s.row_count |->
                 EqualizeLine(t.max_height_per_row[r], s.vertical_spacing)]
        ew == [c \in 1..s.column_count |->
                 EqualizeLine(t.max_width_per_column[c], s.horizontal_spacing)]
        principal_height_ratio_list == [r \in 1..s.row_count |-> eh[r].principal]
        principal_width_ratio_list == [c \in 1..s.column_count |-> ew[c].principal]
        content_height_ == Add(SumOf(principal_height_ratio_list, 1, s.row_count),
                               Mul(Q(s.row_count), s.vertical_spacing))
        content_width_ == Add(SumOf(principal_width_ratio_list, 1, s.column_count),
                              Mul(Q(s.column_count), s.horizontal_spacing))
        cr == content_rect(s)
    IN  [err |-> t.err,
         child_sorted_row_wise |-> t.child_sorted_row_wise,
         principal_height_ratio_list |-> principal_height_ratio_list,
         principal_width_ratio_list |-> principal_width_ratio_list,
         max_height_per_row |-> [r \in 1..s.row_count |-> eh[r].line],
         max_width_per_column |-> [c \in 1..s.column_count |-> ew[c].line],
         expandable_height_ratio |-> ratio(principal_width_ratio_list),
         expandable_width_ratio |-> ratio(principal_height_ratio_list),
         total_available_height |-> Sub(Sub(top(cr), content_height_), bottom(cr)),
         total_available_width |-> Sub(Sub(right(cr), content_width_), left(cr))]

\* lines 699-715: the new length of a child on one axis
GridLength(len, available, hint, shmn, shmx) ==
    LET sh == IF hint = None THEN Zero ELSE hint
        a == Max2(Or(shmn, Zero), Or(Mul(sh, available), len))
    IN  IF Truthy(shmx) THEN Min2(shmx, a) ELSE a

\* lines 691-692 and 695-696: the part of total_available_height and of
\* total_available_width that the cell (row_num, col_num) is handed
CellHeightSlack(p, row_num, col_num) ==
    Mul(p.total_available_height, p.expandable_height_ratio[col_num])
CellWidthSlack(p, row_num, col_num) ==
    Mul(p.total_available_width, p.expandable_width_ratio[row_num])

\* the body of the inner loop for the cell (row_num, col_num), both 1-based here
\* (lines 688-745).  w is [cs, err, start_x, start_y, max_height_row].
GridCell(s, p, w, row_num, col_num) ==
    IF col_num > s.column_count THEN [w EXCEPT !.err = "IndexError"]
    ELSE
    LET k == p.child_sorted_row_wise[row_num][col_num]
        constant_height == p.max_height_per_row[row_num][col_num][1]
        available_height == Add(constant_height, CellHeightSlack(p, row_num, col_num))
        constant_width == p.max_width_per_column[col_num][row_num][1]
        available_width == Add(constant_width, CellWidthSlack(p, row_num, col_num))
    IN  IF k = 0 \/ constant_width = Zero \/ constant_height = Zero THEN w
        ELSE
        LET c == w.cs[k]
            sh == IF c.size_hint = None THEN <<None, None>> ELSE c.size_hint
            mn == Pair(c.size_hint_min)
            mx == Pair(c.size_hint_max)
            new_height == GridLength(c.rect.height, available_height, sh[2], mn[2], mx[2])
            new_width == GridLength(c.rect.width, available_width, sh[1], mn[1], mx[1])
            r1 == resize(c.rect, new_width, new_height)
            cell_height == Add(constant_height, s.vertical_spacing)
            cell_width == Add(constant_width, s.horizontal_spacing)
            center_y_ == Sub(w.start_y, Mul(cell_height, Half))
            center_x_ == Add(w.start_x, Mul(cell_width, Half))
            start_x == Add(w.start_x, cell_width)
            r2 == IF s.align_vertical = "top" THEN align_top(r1, w.start_y)
                  ELSE IF s.align_vertical = "bottom"
                       THEN align_bottom(r1, Sub(w.start_y, cell_height))
                       ELSE align_center_y(r1, center_y_)
            r3 == IF s.align_horizontal = "left" THEN align_left(r2, Sub(start_x, cell_width))
                  ELSE IF s.align_horizontal = "right" THEN align_right(r2, start_x)
                       ELSE align_center_x(r2, center_x_)
            row_span == IF p.max_height_per_row[row_num][col_num][2] = 0 THEN 1
                        ELSE p.max_height_per_row[row_num][col_num][2]
            actual_row_height == Div(cell_height, Q(row_span))
        IN  [w EXCEPT !.cs = [w.cs EXCEPT ![k] = [c EXCEPT !.rect = r3]],
                      !.start_x = start_x,
                      !.max_height_row = Max2(actual_row_height, w.max_height_row)]

\* the inner loop over one row from column col_num on
RECURSIVE GridRow(_, _, _, _, _)
GridRow(s, p, w, row_num, col_num) ==
    IF w.err # "none" \/ col_num > Len(p.child_sorted_row_wise[row_num]) THEN w
    ELSE GridRow(s, p, GridCell(s, p, w, row_num, col_num), row_num, col_num + 1)

\* the outer loop from row row_num on (lines 684-747)
RECURSIVE GridRows(_, _, _, _)
GridRows(s, p, w, row_num) ==
    IF w.err # "none" \/ row_num > s.row_count THEN w
    ELSE LET w0 == [w EXCEPT !.max_height_row = Zero, !.start_x = left(content_rect(s))]
             w1 == GridRow(s, p, w0, row_num, 1)
         IN  GridRows(s, p, [w1 EXCEPT !.start_y = Sub(w1.start_y, w1.max_height_row)],
                      row_num + 1)

\* UIGridLayout.do_layout: [cs, err, ...]
GridDoLayout(s, cs) ==
    LET w == [cs |-> cs, err |-> "none", start_x |-> left(content_rect(s)),
              start_y |-> top(content_rect(s)), max_height_row |-> Zero]
        p == GridPlan(s, cs)
    IN  IF Len(cs) = 0 THEN w
        ELSE IF p.err # "none" THEN [w EXCEPT !.err = p.err]
        ELSE GridRows(s, p, w, 1)

\* ------------------------------------------------------------------------
\* The inputs the operations are tried on
\* ------------------------------------------------------------------------

MaxChildren == 2
MaxLayouts == 1
\* the most rows a file chooser grows its grid to
MaxRows == 3

\* a container of the given size at the origin, with the constructors' defaults
Container(w, h) ==
    [x |-> Zero, y |-> Zero, width |-> Q(w), height |-> Q(h),
     padding_left |-> Zero, padding_right |-> Zero,
     padding_top |-> Zero, padding_bottom |-> Zero, border_width |-> Zero,
     size_hint_min |-> None,
     vertical |-> TRUE, align |-> "center", space_between |-> Zero,
     column_count |-> 1, row_count |-> 1,
     horizontal_spacing |-> Zero, vertical_spacing |-> Zero,
     align_horizontal |-> "center", align_vertical |-> "center"]

AnchorSelves == {Container(1000, 100), Container(60, 100), Container(40, 30)}

BoxSelf(w, h, vertical, align, space) ==
    [Container(w, h) EXCEPT !.vertical = vertical, !.align = align,
                            !.space_between = Q(space)]

BoxSelves ==
    {BoxSelf(1000, 300, TRUE, "center", 0), BoxSelf(60, 300, TRUE, "left", 5),
     BoxSelf(40, 30, TRUE, "right", 0),
     BoxSelf(300, 1000, FALSE, "center", 0), BoxSelf(300, 60, FALSE, "top", 5),
     BoxSelf(30, 40, FALSE, "bottom", 0)}

GridSelf(w, h, cols, rows, hsp, vsp, ah, av) ==
    [Container(w, h) EXCEPT !.column_count = cols, !.row_count = rows,
                            !.horizontal_spacing = Q(hsp), !.vertical_spacing = Q(vsp),
                            !.align_horizontal = ah, !.align_vertical = av]

GridSelves ==
    {GridSelf(200, 100, 2, 2, 5, 0, "left", "center")}

\* the widgets that get added: a fixed-size widget without hints, one with the
\* hints (0.5, None) / (50, None) / (80, None), one that only grows on the y axis,
\* one hinted on both axes that starts empty, one without size_hint whose
\* size_hint_min exceeds its size
Fixed == Widget(100, 40, None, None, None)
HalfWide == Widget(10, 10, <<Half, None>>, <<Q(50), None>>, <<Q(80), None>>)
HalfHigh == Widget(10, 10, <<None, Half>>, <<None, Q(50)>>, <<None, Q(80)>>)
GrowY == Widget(30, 20, <<None, One>>, None, None)
GrowX == Widget(30, 20, <<One, None>>, None, None)
Empty == Widget(0, 0, <<One, One>>, <<Q(50), Q(50)>>, <<Q(80), Q(80)>>)
Grow == Widget(10, 30, <<One, One>>, None, None)
Unmanaged == Widget(10, 10, None, <<Q(50), Q(50)>>, <<Q(80), Q(80)>>)
ZeroMax == Widget(10, 10, <<One, One>>, None, <<Zero, Zero>>)
\* widgets whose size_hint_min exceeds their size_hint_max, and widgets of weight 0
Conflict == Widget(10, 10, <<One, One>>, <<Q(50), Q(50)>>, <<Zero, Zero>>)
Idle == Widget(10, 10, <<Zero, Zero>>, <<Q(20), Q(20)>>, None)
IdleConflict == Widget(10, 10, <<Zero, Zero>>, <<Q(50), Q(50)>>, <<Q(20), Q(20)>>)

AnchorWidgets == {Fixed, HalfWide, Empty, ZeroMax}
BoxWidgets == {Fixed, HalfWide, HalfHigh, GrowY, GrowX, Empty, Idle, IdleConflict}
GridWidgets == {Empty, Grow, Unmanaged}

NoData ==
    [anchor_x |-> NoAnchor, align_x |-> Zero, anchor_y |-> NoAnchor, align_y |-> Zero,
     col_num |-> 0, row_num |-> 0, col_span |-> 1, row_span |-> 1]

AnchorData(ax, dx, ay, dy) ==
    [NoData EXCEPT !.anchor_x = ax, !.align_x = Q(dx), !.anchor_y = ay, !.align_y = Q(dy)]

AnchorPlacements ==
    {AnchorData(NoAnchor, 0, NoAnchor, 0), AnchorData("right", -5, "top", 0),
     AnchorData("left", 3, "bottom", 2)}

GridData(col, row, cspan, rspan) ==
    [NoData EXCEPT !.col_num = col, !.row_num = row, !.col_span = cspan, !.row_span = rspan]

\* placements inside a 2x2 grid, and some that are not: a negative column,
\* a row one past the last, a span that runs past the last column
GridPlacements ==
    {GridData(0, 0, 1, 1), GridData(1, 0, 1, 1), GridData(0, 1, 1, 1),
     GridData(0, 0, 2, 1), GridData(0, 0, 1, 2),
     GridData(-1, 0, 1, 1), GridData(0, 2, 1, 1), GridData(1, 0, 2, 1)}

\* one (child, data) entry of self._children
Entry(widget, data) ==
    [rect |-> widget.rect, size_hint |-> widget.size_hint,
     size_hint_min |-> widget.size_hint_min, size_hint_max |-> widget.size_hint_max,
     data |-> data]

\* the entries add() is tried with on a grid: every widget at every placement, a
\* widget with clashing bounds in the first cell, a fixed widget over two rows
GridEntries ==
    {Entry(w, d) : w \in GridWidgets, d \in GridPlacements}
        \cup {Entry(Conflict, GridData(0, 0, 1, 1)), Entry(Fixed, GridData(0, 0, 1, 2))}

\* with_padding(top, right, bottom, left) and with_border(width)
Paddings == {<<1, 2, 3, 4>>}
Borders == {1}


\* ------------------------------------------------------------------------
\* Operations
\* ------------------------------------------------------------------------

\* what the bindings of __init__ run when _children, a padding or the border
\* changes (lines 216-222, 486-492): [err, size_hint_min]
UpdateSizeHints(k, s, cs) ==
    IF k = "box" THEN [err |-> "none", size_hint_min |-> BoxUpdateSizeHints(s, cs)]
    ELSE IF k = "grid" THEN GridUpdateSizeHints(s, cs)
    ELSE [err |-> "none", size_hint_min |-> s.size_hint_min]

\* the container and the error after its children became cs
Changed(k, s, cs) ==
    LET u == UpdateSizeHints(k, s, cs)
    IN  /\ self' = [s EXCEPT !.size_hint_min = u.size_hint_min]
        /\ children' = cs
        /\ err' = u.err

Init ==
    /\ \E i \in 1..3 : kind = <<"grid", "box", "anchor">>[i]
    /\ \E s \in (IF kind = "anchor" THEN AnchorSelves
                 ELSE IF kind = "box" THEN BoxSelves ELSE GridSelves) :
          self = [s EXCEPT !.size_hint_min = UpdateSizeHints(kind, s, << >>).size_hint_min]
    /\ children = << >>
    /\ err = "none"
    /\ lastOp = "init"
    /\ layouts = 0

\* children are added before the container is first laid out, or after a clear()
CanAdd == err = "none" /\ Len(children) < MaxChildren /\ layouts = 0

\* UIAnchorLayout.add
AnchorAdd ==
    /\ kind = "anchor"
    /\ CanAdd
    /\ \E w \in AnchorWidgets, d \in AnchorPlacements :
          Changed(kind, self, Append(children, Entry(w, d)))
    /\ lastOp' = "add"
    /\ UNCHANGED <<kind, layouts>>

\* UIBoxLayout.add (inherited)
BoxAdd ==
    /\ kind = "box"
    /\ CanAdd
    /\ \E w \in BoxWidgets : Changed(kind, self, Append(children, Entry(w, NoData)))
    /\ lastOp' = "add"
    /\ UNCHANGED <<kind, layouts>>

\* UIGridLayout.add
GridAdd ==
    /\ kind = "grid"
    /\ CanAdd
    /\ \E e \in GridEntries : Changed(kind, self, Append(children, e))
    /\ lastOp' = "add"
    /\ UNCHANGED <<kind, layouts>>

\* one pass of the inner loop of UIFIleChooser.setup: the file button of
\* (col_index, row_index) is added, after the chooser grew its row_count.
\* enumerate() counts the rows up from 1, so row_index is at most row_count.
SetupAdd ==
    /\ kind = "grid"
    /\ CanAdd
    /\ \E col_index \in {1}, row_index \in 1..self.row_count :
          LET s == IF row_index >= self.row_count
                   THEN [self EXCEPT !.row_count = self.row_count + 1]
                   ELSE self
          IN  /\ s.row_count <= MaxRows
              /\ Changed(kind, s, Append(children,
                                         Entry(Fixed, GridData(col_index, row_index, 1, 1))))
    /\ lastOp' = "add"
    /\ UNCHANGED <<kind, layouts>>

\* remove(child)
Remove ==
    /\ err = "none"
    /\ \E i \in 1..Len(children) :
          Changed(kind, self, SubSeq(children, 1, i - 1) \o SubSeq(children, i + 1, Len(children)))
    /\ lastOp' = "remove"
    /\ UNCHANGED <<kind, layouts>>

\* clear()
Clear ==
    /\ err = "none"
    /\ Len(children) > 0
    /\ Changed(kind, self, << >>)
    /\ lastOp' = "clear"
    /\ layouts' = 0
    /\ UNCHANGED kind

\* with_padding(top, right, bottom, left)
WithPadding ==
    /\ err = "none"
    /\ \E p \in Paddings :
          /\ <<self.padding_top, self.padding_right, self.padding_bottom, self.padding_left>>
                # <<Q(p[1]), Q(p[2]), Q(p[3]), Q(p[4])>>
          /\ Changed(kind, [self EXCEPT !.padding_top = Q(p[1]), !.padding_right = Q(p[2]),
                                        !.padding_bottom = Q(p[3]), !.padding_left = Q(p[4])],
                     children)
    /\ lastOp' = "padding"
    /\ UNCHANGED <<kind, layouts>>

\* with_border(width), called on a widget that was given its padding
WithBorder ==
    /\ err = "none"
    /\ self.padding_left # Zero
    /\ \E b \in Borders :
          /\ self.border_width # Q(b)
          /\ Changed(kind, [self EXCEPT !.border_width = Q(b)], children)
    /\ lastOp' = "padding"
    /\ UNCHANGED <<kind, layouts>>

\* UIAnchorLayout.do_layout()
AnchorLayout ==
    /\ kind = "anchor"
    /\ err = "none"
    /\ layouts < MaxLayouts
    /\ children' = AnchorDoLayout(self, children)
    /\ lastOp' = "do_layout"
    /\ layouts' = layouts + 1
    /\ UNCHANGED <<kind, self, err>>

\* UIBoxLayout.do_layout()
BoxLayout ==
    /\ kind = "box"
    /\ err = "none"
    /\ layouts < MaxLayouts
    /\ children' = BoxDoLayout(self, children)
    /\ lastOp' = "do_layout"
    /\ layouts' = layouts + 1
    /\ UNCHANGED <<kind, self, err>>

\* UIGridLayout.do_layout()
GridLayout ==
    /\ kind = "grid"
    /\ err = "none"
    /\ layouts < MaxLayouts
    /\ LET w == GridDoLayout(self, children)
       IN  children' = w.cs /\ err' = w.err
    /\ lastOp' = "do_layout"
    /\ layouts' = layouts + 1
    /\ UNCHANGED <<kind, self>>

Next ==
    \/ AnchorAdd
    \/ BoxAdd
    \/ GridAdd
    \/ SetupAdd
    \/ Remove
    \/ Clear
    \/ WithPadding
    \/ WithBorder
    \/ AnchorLayout
    \/ BoxLayout
    \/ GridLayout

Spec == Init /\ [][Next]_vars

\* ------------------------------------------------------------------------
\* Properties
\* ------------------------------------------------------------------------

Last(cs) == cs[Len(cs)]

\* the children after do_layout() of a container of class k
LaidOut(k, s, cs) ==
    IF k = "anchor" THEN AnchorDoLayout(s, cs)
    ELSE IF k = "box" THEN BoxDoLayout(s, cs)
    ELSE GridDoLayout(s, cs).cs

\* a placement that lies inside the configured grid
InGrid(s, d) ==
    /\ 0 <= d.col_num /\ d.col_num + d.col_span <= s.column_count
    /\ 0 <= d.row_num /\ d.row_num + d.row_span <= s.row_count

\* every child of a grid lies inside the grid
AllInGrid(k, s, cs) == k = "grid" => \A i \in 1..Len(cs) : InGrid(s, cs[i].data)

\* C1: a second do_layout() right after a do_layout() leaves every child's rect
\* as the first one left it, in each of the three containers.
C1_LayoutIsIdempotent ==
    (lastOp = "do_layout" /\ err = "none" /\ AllInGrid(kind, self, children))
        => LaidOut(kind, self, children) = children

\* C2: add() with a placement inside the grid never makes a component of a box's
\* or grid's size_hint_min smaller.
C2_AddNeverShrinksMin ==
    [][(/\ kind \in {"box", "grid"}
        /\ lastOp' = "add"
        /\ err' = "none"
        /\ AllInGrid(kind, self', children'))
       => (/\ Leq(self.size_hint_min[1], self'.size_hint_min[1])
           /\ Leq(self.size_hint_min[2], self'.size_hint_min[2]))]_vars

\* C3 as stated: removing the only child of a box or grid leaves size_hint_min at
\* (base_width, base_height).
C3_RemoveOnlyChildGivesBase ==
    (kind \in {"box", "grid"} /\ lastOp = "remove" /\ children = << >>)
        => self.size_hint_min = <<base_width(self), base_height(self)>>

\* C3 as amended: removing the only child leaves a box's size_hint_min at
\* (base_width, base_height) and a grid's at (base_width + column_count *
\* horizontal_spacing, base_height + row_count * vertical_spacing).
C3_RemoveOnlyChildGivesBasePlusSpacing ==
    (kind \in {"box", "grid"} /\ lastOp = "remove" /\ children = << >>)
        => self.size_hint_min =
              IF kind = "box" THEN <<base_width(self), base_height(self)>>
              ELSE <<Add(base_width(self),
                         Mul(Q(self.column_count), self.horizontal_spacing)),
                     Add(base_height(self),
                         Mul(Q(self.row_count), self.vertical_spacing))>>

\* C3: the only child of a grid with spacing, and padding, was removed
C3_Witness ==
    /\ kind = "grid" /\ lastOp = "remove" /\ children = << >>
    /\ self.horizontal_spacing # Zero /\ self.padding_left # Zero

\* min <= len <= max, when the axis is hinted and both bounds are set, min <= max
WithinHintBounds(len, sh, mn, mx) ==
    (sh # None /\ mn # None /\ mx # None /\ Leq(mn, mx)) => (Leq(mn, len) /\ Leq(len, mx))

\* C4: after do_layout() every child's size is within its size_hint_min and
\* size_hint_max on each axis that has a size_hint and both bounds.
C4_SizeWithinHintBounds ==
    (lastOp = "do_layout" /\ err = "none" /\ AllInGrid(kind, self, children)) =>
        \A i \in 1..Len(children) :
            LET c == children[i]
                sh == Pair(c.size_hint)
                mn == Pair(c.size_hint_min)
                mx == Pair(c.size_hint_max)
            IN  /\ WithinHintBounds(c.rect.width, sh[1], mn[1], mx[1])
                /\ WithinHintBounds(c.rect.height, sh[2], mn[2], mx[2])

\* C5: the only child of a grid, spanning k columns (rows), adds its minimum
\* width (height) divided by k to the tally of each column (row) it covers.
C5_SpanBilledToEachColumn ==
    (kind = "grid" /\ err = "none" /\ lastOp = "add" /\ Len(children) = 1
        /\ InGrid(self, children[1].data)) =>
        LET d == children[1].data
            t == Tables(self, children, EmptyTables(self), 1, TRUE)
            pw == PrincipalList(t.max_width_per_column)
            ph == PrincipalList(t.max_height_per_row)
        IN  /\ \A c \in (d.col_num + 1)..(d.col_num + d.col_span) :
                  pw[c] = Div(MinSize(children[1])[1], Q(d.col_span))
            /\ \A r \in (d.row_num + 1)..(d.row_num + d.row_span) :
                  ph[r] = Div(MinSize(children[1])[2], Q(d.row_span))

\* C6: do_layout() leaves a child's size alone on every axis on which the child
\* has no size_hint.
C6_UnmanagedAxisUntouched ==
    [][(lastOp' = "do_layout" /\ err' = "none" /\ AllInGrid(kind, self, children)) =>
        \A i \in 1..Len(children) :
            LET allowed == LayoutingAllowed(children[i])
            IN  /\ ~allowed[1] => children'[i].rect.width = children[i].rect.width
                /\ ~allowed[2] => children'[i].rect.height = children[i].rect.height]_vars

\* C7: an add() at a row at or past row_count extends the grid and succeeds.
C7_AddPastLastRowGrowsGrid ==
    [][(/\ kind = "grid"
        /\ lastOp' = "add"
        /\ Last(children').data.row_num >= self.row_count
        /\ 0 <= Last(children').data.col_num
        /\ Last(children').data.col_num + Last(children').data.col_span <= self.column_count)
       => (/\ err' = "none"
           /\ self'.row_count >= Last(children').data.row_num + Last(children').data.row_span)]_vars

\* C8: an add() with a negative column or row, or a span past the last column,
\* fails with InvalidPlacement unless the grid grew to hold it.
C8_InvalidPlacementRejected ==
    (/\ kind = "grid"
     /\ lastOp = "add"
     /\ \/ Last(children).data.col_num < 0
        \/ Last(children).data.row_num < 0
        \/ Last(children).data.col_num + Last(children).data.col_span > self.column_count)
        => err = "InvalidPlacement"

\* a child's minimum contribution on an axis: size_hint_min (or 0) where the axis
\* has a size_hint, its current size otherwise
Contribution(c, axis) ==
    IF Pair(c.size_hint)[axis] # None
    THEN IF Pair(c.size_hint_min)[axis] = None THEN Zero ELSE Pair(c.size_hint_min)[axis]
    ELSE IF axis = 1 THEN c.rect.width ELSE c.rect.height

\* the minimum size of a box: the sum plus the spaces between on the stacking
\* axis, the maximum on the cross axis, each plus the padding and border
BoxAggregate(s, cs, axis) ==
    LET n == Len(cs)
        f == [i \in 1..n |-> Contribution(cs[i], axis)]
        stacking == (axis = 2) = s.vertical
        content == IF n = 0 THEN Zero
                   ELSE IF stacking THEN Add(SumOf(f, 1, n), Mul(Q(n - 1), s.space_between))
                   ELSE MaxOf(f, 1, n)
    IN  Add(IF axis = 1 THEN base_width(s) ELSE base_height(s), content)

\* C9: the size_hint_min of a box is always the aggregate of its present children,
\* padding and border; that of a grid is its own aggregate after every add, remove,
\* clear and padding or border change that completed.
C9_CachedMinSizeFresh ==
    /\ kind = "box" =>
          self.size_hint_min = <<BoxAggregate(self, children, 1), BoxAggregate(self, children, 2)>>
    /\ (kind = "grid" /\ err = "none" /\ lastOp # "do_layout") =>
          self.size_hint_min = GridUpdateSizeHints(self, children).size_hint_min

\* C9: a box with spacing holds two children and its padding was just changed
C9_Witness ==
    /\ kind = "box" /\ lastOp = "padding" /\ Len(children) = 2
    /\ self.space_between # Zero /\ self.padding_left # Zero

\* v clamped up to m and then down to M, each where set
ClampHint(v, m, M) ==
    LET a == IF m # None THEN Max2(m, v) ELSE v
    IN  IF M # None THEN Min2(M, a) ELSE a

\* C10: an anchor layout on both axes, and a box on its cross axis, give a child
\* with a size_hint f the size f * content clamped up to size_hint_min and then
\* down to size_hint_max.  Stated for the sizes that fit the content: an anchor
\* layout cuts the others down to its content size afterwards.
C10_ClampedToHints ==
    (lastOp = "do_layout" /\ kind \in {"anchor", "box"}) =>
        \A i \in 1..Len(children) :
            LET c == children[i]
                sh == Pair(c.size_hint)
                mn == Pair(c.size_hint_min)
                mx == Pair(c.size_hint_max)
                w == ClampHint(Mul(content_width(self), sh[1]), mn[1], mx[1])
                h == ClampHint(Mul(content_height(self), sh[2]), mn[2], mx[2])
            IN  /\ (/\ sh[1] # None
                    /\ \/ kind = "box" /\ self.vertical
                       \/ kind = "anchor" /\ Leq(w, content_width(self)))
                       => c.rect.width = w
                /\ (/\ sh[2] # None
                    /\ \/ kind = "box" /\ ~self.vertical
                       \/ kind = "anchor" /\ Leq(h, content_height(self)))
                       => c.rect.height = h

\* the x / y coordinate that an anchor name stands for, None being the default
CoordX(r, a) ==
    CASE a = "left" -> r.x
      [] a = "right" -> Add(r.x, r.width)
      [] OTHER -> Add(r.x, Div(r.width, Q(2)))
CoordY(r, a) ==
    CASE a = "bottom" -> r.y
      [] a = "top" -> Add(r.y, r.height)
      [] OTHER -> Add(r.y, Div(r.height, Q(2)))

\* C11: after UIAnchorLayout.do_layout() the anchor coordinate of every child
\* (left, center or right; top, center or bottom; center when none was given)
\* is the same coordinate of the container's content rect plus align_x / align_y.
C11_AnchorCoordinateMatches ==
    (kind = "anchor" /\ lastOp = "do_layout") =>
        \A i \in 1..Len(children) :
            LET c == children[i]
                cr == content_rect(self)
            IN  /\ CoordX(c.rect, c.data.anchor_x)
                      = Add(CoordX(cr, c.data.anchor_x), c.data.align_x)
                /\ CoordY(c.rect, c.data.anchor_y)
                      = Add(CoordY(cr, c.data.anchor_y), c.data.align_y)

\* a child anchored right with align_x = -5 was laid out in a padded container,
\* next to a child that took the default anchors
C11_Witness ==
    /\ kind = "anchor" /\ lastOp = "do_layout" /\ Len(children) = 2
    /\ self.padding_left # Zero
    /\ children[1].data.anchor_x = "right" /\ children[1].data.align_x = Q(-5)
    /\ right(children[1].rect) = Sub(right(content_rect(self)), Q(5))
    /\ children[2].data.anchor_x = NoAnchor

\* C12: after UIAnchorLayout.do_layout() no child with a size_hint is wider or
\* higher than the container's content area, whatever its hints are.
C12_AnchorChildFitsContent ==
    (kind = "anchor" /\ lastOp = "do_layout") =>
        \A i \in 1..Len(children) :
            children[i].size_hint # None =>
                /\ Leq(children[i].rect.width, content_width(self))
                /\ Leq(children[i].rect.height, content_height(self))

\* a child whose size_hint_min is larger than the content area was laid out and
\* ended exactly as large as the content area
C12_Witness ==
    /\ kind = "anchor" /\ lastOp = "do_layout"
    /\ \E i \in 1..Len(children) :
          /\ children[i].size_hint # None
          /\ Pair(children[i].size_hint_min)[1] # None
          /\ Lt(content_width(self), Pair(children[i].size_hint_min)[1])
          /\ children[i].rect.width = content_width(self)
          /\ children[i].rect.height = content_height(self)

\* C13: a vertical box without padding, border or spacing whose n children all
\* have size_hint (None, 1), minimum height 0 and no size_hint_max gives each of
\* them the height self.height / n.
C13_EqualWeightsShareEvenly ==
    (/\ kind = "box" /\ lastOp = "do_layout" /\ self.vertical
     /\ base_height(self) = Zero /\ base_width(self) = Zero
     /\ self.space_between = Zero
     /\ \A i \in 1..Len(children) :
           /\ children[i].size_hint = <<None, One>>
           /\ Pair(children[i].size_hint_min)[2] \in {None, Zero}
           /\ children[i].size_hint_max = None)
        => \A i \in 1..Len(children) :
              children[i].rect.height = Div(self.height, Q(Len(children)))

\* two such children were laid out in a box of height 300 and are 150 high each
C13_Witness ==
    /\ kind = "box" /\ lastOp = "do_layout" /\ self.vertical
    /\ base_height(self) = Zero /\ self.space_between = Zero
    /\ self.height = Q(300)
    /\ Len(children) = 2
    /\ \A i \in 1..2 : /\ children[i].size_hint = <<None, One>>
                       /\ children[i].size_hint_min = None
                       /\ children[i].size_hint_max = None
                       /\ children[i].rect.height = Q(150)

\* C14: a child with a size_hint and with size_hint_min above size_hint_max on an
\* axis ends exactly size_hint_max long on that axis in a box and in a grid, and
\* size_hint_max cut down to the content size in an anchor layout.
C14_MaxWinsClampConflict ==
    (lastOp = "do_layout" /\ err = "none") =>
        \A i \in 1..Len(children) :
            LET c == children[i]
                sh == Pair(c.size_hint)
                mn == Pair(c.size_hint_min)
                mx == Pair(c.size_hint_max)
                clash(a) == sh[a] # None /\ mn[a] # None /\ mx[a] # None /\ Lt(mx[a], mn[a])
            IN  /\ clash(1) =>
                      c.rect.width = IF kind = "anchor" THEN Min2(mx[1], content_width(self))
                                     ELSE mx[1]
                /\ clash(2) =>
                      c.rect.height = IF kind = "anchor" THEN Min2(mx[2], content_height(self))
                                      ELSE mx[2]

\* the stacking axis of a box: 2 (y) when vertical, 1 (x) when horizontal
StackAxis(s) == IF s.vertical THEN 2 ELSE 1

\* the length of a child's rect on an axis
Along(r, axis) == IF axis = 1 THEN r.width ELSE r.height

\* every child of the box has weight 0 or None on the stacking axis
AllIdle(s, cs) == \A i \in 1..Len(cs) : Pair(cs[i].size_hint)[StackAxis(s)] \in {None, Zero}

\* what a grid's do_layout gives when the extents handed to ratio() sum to 0:
\* every ratio is the number 0 and no child is resized or moved
GridZeroExtents ==
    (kind = "grid" /\ Len(children) > 0 /\ GridPlan(self, children).err = "none") =>
        LET p == GridPlan(self, children)
        IN  /\ SumOf(p.principal_height_ratio_list, 1, self.row_count) = Zero
                  => /\ \A r \in 1..self.row_count : p.expandable_width_ratio[r] = Zero
                     /\ children' = children
            /\ SumOf(p.principal_width_ratio_list, 1, self.column_count) = Zero
                  => /\ \A c \in 1..self.column_count : p.expandable_height_ratio[c] = Zero
                     /\ children' = children

C16_ChildrenStackedInOrder ==
    (kind = "box" /\ lastOp = "do_layout" /\ Len(children) > 0) =>
        LET n == Len(children)
            cr == content_rect(self)
            r(i) == children[i].rect
        IN  IF self.vertical
            THEN /\ top(r(1)) = top(cr)
                 /\ \A i \in 1..(n - 1) :
                       /\ top(r(i + 1)) = Sub(bottom(r(i)), self.space_between)
                       /\ Leq(Zero, self.space_between) => Leq(top(r(i + 1)), bottom(r(i)))
            ELSE /\ left(r(1)) = left(cr)
                 /\ \A i \in 1..(n - 1) :
                       /\ left(r(i + 1)) = Add(right(r(i)), self.space_between)
                       /\ Leq(Zero, self.space_between) => Leq(right(r(i)), left(r(i + 1)))

\* two children were stacked in a padded vertical box with space_between 5: the
\* second one starts 5 below the bottom of the first
C16_Witness ==
    /\ kind = "box" /\ lastOp = "do_layout" /\ self.vertical /\ Len(children) = 2
    /\ self.space_between = Q(5) /\ self.padding_top # Zero
    /\ Lt(Zero, children[1].rect.height)
    /\ top(children[2].rect) = Sub(bottom(children[1].rect), Q(5))

\* C17: UIGridLayout.do_layout() hands the width slack to the columns in
\* proportion to their extents: the ratios are indexed by column and sum to 1, so
\* the width slack of the cells of one row adds up to the whole width slack; the
\* same for the height slack over the rows of one column.  Stated for grids whose
\* row extents and column extents do not sum to 0.
C17_SlackSharesAddUp ==
    [][(/\ kind = "grid" /\ lastOp' = "do_layout" /\ Len(children) > 0
        /\ GridPlan(self, children).err = "none"
        /\ AllInGrid(kind, self, children)
        /\ SumOf(GridPlan(self, children).principal_width_ratio_list, 1, self.column_count)
              # Zero
        /\ SumOf(GridPlan(self, children).principal_height_ratio_list, 1, self.row_count)
              # Zero)
        => LET p == GridPlan(self, children)
               R == self.row_count
               C == self.column_count
           IN  /\ \A r \in 1..R :
                     SumOf([c \in 1..C |-> CellWidthSlack(p, r, c)], 1, C)
                        = p.total_available_width
               /\ \A c \in 1..C :
                     SumOf([r \in 1..R |-> CellHeightSlack(p, r, c)], 1, R)
                        = p.total_available_height]_vars

\* the children whose rect a do_layout() of a container of class k assigns
Assigned(k, s, cs) == IF k = "anchor" THEN AnchorAssigned(s, cs) ELSE BoxAssigned(s, cs)

\* C18: UIBoxLayout.do_layout() assigns a child's rect only when the new rect
\* differs from the present one, so that, as in UIAnchorLayout, a do_layout() on
\* a container that was just laid out assigns no rect.
C18_NoAssignmentWhenLaidOut ==
    (kind \in {"anchor", "box"} /\ lastOp = "do_layout") =>
        /\ \A i \in Assigned(kind, self, children) :
              LaidOut(kind, self, children)[i].rect # children[i].rect
        /\ Assigned(kind, self, children) = {}

\* the cells <<column, row>> a placement covers
CellsOf(d) ==
    {<<c, r>> : c \in d.col_num..(d.col_num + d.col_span - 1),
                r \in d.row_num..(d.row_num + d.row_span - 1)}

\* two rects share a region of non-zero area
Overlap(a, b) ==
    /\ Lt(left(a), right(b)) /\ Lt(left(b), right(a))
    /\ Lt(bottom(a), top(b)) /\ Lt(bottom(b), top(a))

\* a child without any hint: the grid leaves its size alone and builds the cells
\* from it, so it fits the cells it covers
Unhinted(c) == c.size_hint = None /\ c.size_hint_min = None /\ c.size_hint_max = None

\* C19: after UIGridLayout.do_layout() on children that cover pairwise disjoint
\* cells of the grid and fit them, no two children's rects overlap, and two
\* children of span 1 in the same column but different rows start at the same x,
\* also when the cells to their left are empty or covered by a child that spans
\* rows or columns from another cell.  Stated for a left-aligned grid, where a
\* child's left edge is its cell's left edge.
C19_CellsDisjointAndAligned ==
    (/\ kind = "grid" /\ lastOp = "do_layout" /\ err = "none"
     /\ self.align_horizontal = "left"
     /\ AllInGrid(kind, self, children)
     /\ \A i \in 1..Len(children) : Unhinted(children[i])
     /\ \A i, j \in 1..Len(children) :
           i # j => CellsOf(children[i].data) \cap CellsOf(children[j].data) = {})
        => \A i, j \in 1..Len(children) :
              LET a == children[i]
                  b == children[j]
              IN  i # j =>
                    /\ ~Overlap(a.rect, b.rect)
                    /\ (/\ a.data.col_num = b.data.col_num
                        /\ a.data.row_num # b.data.row_num
                        /\ a.data.col_span = 1 /\ a.data.row_span = 1
                        /\ b.data.col_span = 1 /\ b.data.row_span = 1)
                          => left(a.rect) = left(b.rect)

\* the sum of the children's lengths on an axis
RECURSIVE TotalAlong(_, _, _)
TotalAlong(cs, axis, k) ==
    IF k > Len(cs) THEN Zero ELSE Add(Along(cs[k].rect, axis), TotalAlong(cs, axis, k + 1))

\* C20: in a box that is at least as long on its stacking axis as its up-to-date
\* size_hint_min, with space_between >= 0 and children whose size_hint_min does
\* not exceed their size_hint_max, the children's lengths on the stacking axis
\* plus the spaces between them fit the content length after do_layout().
C20_StackFitsContent ==
    (/\ kind = "box" /\ lastOp = "do_layout" /\ Len(children) > 0
     /\ self.size_hint_min = BoxUpdateSizeHints(self, children)
     /\ Leq(self.size_hint_min[StackAxis(self)],
            IF self.vertical THEN self.height ELSE self.width)
     /\ Leq(Zero, self.space_between)
     /\ \A i \in 1..Len(children) :
           LET mn == Pair(children[i].size_hint_min)[StackAxis(self)]
               mx == Pair(children[i].size_hint_max)[StackAxis(self)]
           IN  (mn # None /\ mx # None) => Leq(mn, mx))
        => Leq(Add(TotalAlong(children, StackAxis(self), 1),
                   Mul(Q(Len(children) - 1), self.space_between)),
               IF self.vertical THEN content_height(self) ELSE content_width(self))

\* two weighted children were laid out in a padded box with space_between 5 and
\* fill the content length to the last unit
C20_Witness ==
    /\ kind = "box" /\ lastOp = "do_layout" /\ Len(children) = 2
    /\ self.space_between = Q(5) /\ self.padding_top # Zero
    /\ Leq(self.size_hint_min[StackAxis(self)],
           IF self.vertical THEN self.height ELSE self.width)
    /\ \A i \in 1..2 : Truthy(Pair(children[i].size_hint)[StackAxis(self)])
    /\ Add(TotalAlong(children, StackAxis(self), 1), Q(5))
          = IF self.vertical THEN content_height(self) ELSE content_width(self)

====
